---- MODULE Spec2Model ----
(***************************************************************************)
(* Model of the measurement tables of statistics/databases.py: the dense   *)
(* per-sample tables CpuHistory and MemoryHistory, the derived             *)
(* CpuHistoryStacked table and their export to the table store.            *)
(*                                                                         *)
(* Text is modelled as sequences of one-character strings, so that the     *)
(* regular expression of foldername_to_index and the int()/float()         *)
(* conversions are computed on characters.  A numpy array is a function    *)
(* from the zero-based row index to a row; a row is a sequence, so column  *)
(* c of the source is element c + 1 of the row.                            *)
(***************************************************************************)
EXTENDS Integers, Sequences, FiniteSets, TLC

\* ------------------------------------------------------------------ bounds

\* Largest data_amount (runs a table is built for).
MaxDataAmount == 2
\* Largest data_length (samples per run).
MaxDataLength == 3
\* Largest number of lines of a source file (more than MaxDataLength).
MaxLines == 4

\* ------------------------------------------------------------------- text

Digits == <<"0", "1", "2", "3", "4", "5", "6", "7", "8", "9">>

IsDigit(c) == \E d \in 1..10 : Digits[d] = c

DigitVal(c) == (CHOOSE d \in 1..10 : Digits[d] = c) - 1

RECURSIVE DecimalValue(_)
\* int() of a string of decimal digits.
DecimalValue(s) ==
    IF s = <<>> THEN 0
    ELSE 10 * DecimalValue(SubSeq(s, 1, Len(s) - 1)) + DigitVal(s[Len(s)])

AllDigits(s) == s # <<>> /\ \A i \in 1..Len(s) : IsDigit(s[i])

\* The position of the first "." of s, or Len(s) + 1.
DotAt(s) ==
    IF \E i \in 1..Len(s) : s[i] = "."
    THEN CHOOSE i \in 1..Len(s) : s[i] = "." /\ \A j \in 1..(i - 1) : s[j] # "."
    ELSE Len(s) + 1

\* int(float(s)) for a non-negative decimal numeral "ddd" or "ddd.ddd":
\* the fraction is cut off.
IntOfFloat(s) == DecimalValue(SubSeq(s, 1, DotAt(s) - 1))

None == <<"N", "o", "n", "e">>

ResultsPrefix == <<"r", "e", "s", "u", "l", "t", "s", "_">>
UnpackSuffix == <<"_", "u", "n", "p", "a", "c", "k">>

\* The text a "$" of the pattern stops at: the end, or a final newline.
StripFinalNewline(s) ==
    IF s # <<>> /\ s[Len(s)] = "\n" THEN SubSeq(s, 1, Len(s) - 1) ELSE s

\* reg.match(foldername) for ^results_(\d+)_unpack$ : group 1, or <<>>.
FolderGroup(foldername) ==
    LET s == StripFinalNewline(foldername)
        n == Len(s)
    IN  IF /\ n > Len(ResultsPrefix) + Len(UnpackSuffix)
           /\ SubSeq(s, 1, Len(ResultsPrefix)) = ResultsPrefix
           /\ SubSeq(s, n - Len(UnpackSuffix) + 1, n) = UnpackSuffix
           /\ AllDigits(SubSeq(s, Len(ResultsPrefix) + 1, n - Len(UnpackSuffix)))
        THEN SubSeq(s, Len(ResultsPrefix) + 1, n - Len(UnpackSuffix))
        ELSE <<>>

\* MeasurementBase.foldername_to_index: the index, or SystemError.
foldername_to_index(foldername) ==
    IF FolderGroup(foldername) # <<>>
    THEN [exc |-> "none", index |-> DecimalValue(FolderGroup(foldername))]
    ELSE [exc |-> "SystemError", index |-> 0]

\* ----------------------------------------------------------- source files

RECURSIVE Numeral(_)
\* The decimal numeral of a natural number.
Numeral(n) == IF n < 10 THEN <<Digits[n + 1]>> ELSE Numeral(n \div 10) \o <<Digits[(n % 10) + 1]>>

\* The process whose samples are wanted (the binary argument of postprocess).
Binary == <<"t", "e", "d", "g", "e">>
OtherBinary == <<"c", "a", "t">>

InParentheses(name) == <<"(">> \o name \o <<")">>

\* The kinds of line a /proc/<pid>/stat dump holds in this model:
\*   A  52 fields of the wanted process
\*   N  52 fields of another process
\*   F  51 fields of the wanted process
StatKinds == {"A", "N", "F"}

\* The counters utime, stime, cutime, cstime line i (from 1) of a dump
\* carries: the ticks grow from line to line.
StatCounters(i) == <<100 + i, 200 + i, 300 + i, 400 + i>>

\* The fields of a stat line that no counter of the table is read from.
StatOtherFields == [f \in 1..52 |-> IF f = 3 THEN <<"S">> ELSE Numeral(20 + f)]

\* The texts of the counters of the lines 1 .. MaxLines.
StatCounterTexts ==
    [i \in 1..MaxLines |-> [c \in 1..4 |-> Numeral(StatCounters(i)[c])]]

\* line.split() of line i of a stat dump: its fields, entries[0] first.
StatLine(kind, i) ==
    [f \in 1..(IF kind = "F" THEN 51 ELSE 52) |->
        IF f = 2 THEN InParentheses(IF kind = "N" THEN OtherBinary ELSE Binary)
        ELSE IF f \in 14..17 THEN StatCounterTexts[i][f - 13]
        ELSE StatOtherFields[f]]

NoStat == [exists |-> FALSE, lines |-> <<>>]

\* The stat dumps of at most max lines: whether the file exists, and the
\* kinds of its lines.
StatFiles(max) ==
    {NoStat} \cup UNION {[exists : {TRUE}, lines : [1..n -> StatKinds]] : n \in 0..max}

\* readlines() of a stat dump, each line split into fields.
StatLines(file) == [i \in 1..Len(file.lines) |-> StatLine(file.lines[i], i)]

\* The value strings a collectd export can hold.
RrdValues == << <<"1", "2", ".", "7">>, None, <<"3">>, <<"0", ".", "9">>, <<"4", "0", ".", "0">> >>

\* Line i (from 1) of a collectd export, split: timestamp and value.
\* The counter and the variant select the values the file holds.
RrdLine(counter, variant, i) ==
    << Numeral(1000 + 10 * i + (IF counter = 2 THEN variant - 1 ELSE 0)),
       RrdValues[((counter + 2 * variant + i) % Len(RrdValues)) + 1] >>

NoRrd == [exists |-> FALSE, len |-> 0, variant |-> 1]

\* A collectd export that exists, with n lines.
Present(n, v) == [exists |-> TRUE, len |-> n, variant |-> v]

\* The collectd exports of at most max lines that exist.
ExistingRrdFiles(max) == {Present(n, 1) : n \in 0..max}

\* readlines() of a collectd export, each line split.
RrdLines(counter, file) == [i \in 1..file.len |-> RrdLine(counter, file.variant, i)]

\* ------------------------------------------------------------- CpuHistory

ZeroRow(width) == [c \in 1..width |-> 0]

\* np.zeros((rows, width)).
Zeros(rows, width) == [i \in 0..(rows - 1) |-> ZeroRow(width)]

\* The state a scrap_* method works on: the table, the counters, the
\* exception that ended it, and (history) the writes and the files opened.
Scrap(arr, rid, pos, wlog) ==
    [array |-> arr, row_id |-> rid, sample |-> 0, exc |-> "none",
     p |-> pos, log |-> wlog, reads |-> {}, omitted |-> 0]

\* self.array[idx] = row: numpy raises IndexError outside the table.
SetRow(st, idx, row) ==
    IF st.exc # "none" THEN st
    ELSE IF idx \in DOMAIN st.array
    THEN [st EXCEPT !.array[idx] = row,
                    !.log = Append(@, [p |-> st.p, idx |-> idx, sample |-> row[3]])]
    ELSE [st EXCEPT !.exc = "IndexError"]

\* CpuHistory.insert_line.
Cpu_insert_line(st, idx, mid, sample, utime, stime, cutime, cstime) ==
    SetRow(st, idx, <<idx, mid, sample, utime, stime, cutime, cstime>>)

\* CpuStep with the row inserted at the sample index, not at row_id.
CpuStepAtSample(st, mid, utime, stime, cutime, cstime) ==
    LET w == Cpu_insert_line(st, st.sample, mid, st.sample, utime, stime, cutime, cstime)
    IN  IF w.exc # "none" THEN w
        ELSE [w EXCEPT !.sample = @ + 1, !.row_id = @ + 1]

\* One pass of a scrap_* body: insert the row, then sample += 1, row_id += 1.
CpuStep(st, mid, utime, stime, cutime, cstime) ==
    LET w == Cpu_insert_line(st, st.row_id, mid, st.sample, utime, stime, cutime, cstime)
    IN  IF w.exc # "none" THEN w
        ELSE [w EXCEPT !.sample = @ + 1, !.row_id = @ + 1]

RECURSIVE CpuZeroRows(_, _, _)
\* n times: insert a zero row for the next sample.
CpuZeroRows(st, mid, n) ==
    IF n <= 0 \/ st.exc # "none" THEN st
    ELSE CpuZeroRows(CpuStep(st, mid, 0, 0, 0, 0), mid, n - 1)

\* CpuHistory.scrap_zeros.
Cpu_scrap_zeros(st, data_length, measurement_index) ==
    CpuZeroRows([st EXCEPT !.sample = 0], measurement_index, data_length)

\* CpuAccepted without the test of the process name.
CpuAcceptedAnyName(entries, binary) == Len(entries) = 52

\* The filter of scrap_data: the line is a snapshot of the wanted process.
CpuAccepted(entries, binary) ==
    Len(entries) = 52 /\ entries[2] = InParentheses(binary)

\* The counters scrap_data takes from a line: entries[13] .. entries[16].
CpuCounters(entries) ==
    << DecimalValue(entries[14]), DecimalValue(entries[15]),
       DecimalValue(entries[16]), DecimalValue(entries[17]) >>

\* CpuOmit that lets one line too many through.
CpuOmitLate(sample, data_length) == sample > data_length

\* CpuOmit that omits nothing.
CpuOmitNever(sample, data_length) == FALSE

\* Whether scrap_data omits an accepted line: the run is already full.
CpuOmit(sample, data_length) == sample >= data_length

RECURSIVE CpuScrapLines(_, _, _, _, _)
\* The loop of scrap_data over the lines of the stat dump.
CpuScrapLines(st, lines, data_length, mid, binary) ==
    IF lines = <<>> \/ st.exc # "none" THEN st
    ELSE LET entries == Head(lines)
             c == CpuCounters(entries)
             next == IF ~CpuAccepted(entries, binary) THEN st
                     ELSE IF CpuOmit(st.sample, data_length)
                     THEN [st EXCEPT !.omitted = @ + 1]
                     ELSE CpuStep(st, mid, c[1], c[2], c[3], c[4])
         IN  CpuScrapLines(next, Tail(lines), data_length, mid, binary)

\* CpuHistory.scrap_data: the accepted lines, at most data_length of them,
\* then zero rows for the samples that are missing.
Cpu_scrap_data(st, thefile, data_length, measurement_index, binary) ==
    LET opened == [st EXCEPT !.sample = 0, !.reads = @ \cup {"stat"}]
        read == IF thefile.exists
                THEN CpuScrapLines(opened, StatLines(thefile), data_length,
                                   measurement_index, binary)
                ELSE opened
    IN  CpuZeroRows(read, measurement_index, data_length - read.sample)

\* The value of a collectd line: "None" is 0, else int(float(text)).
RrdInt(text) == IF text = None THEN 0 ELSE IntOfFloat(text)

RECURSIVE CpuCollectdRows(_, _, _, _, _)
\* The loop of scrap_data_collectd: line i of both files makes one row.
CpuCollectdRows(st, lines_utime, lines_stime, mid, n) ==
    IF n <= 0 \/ st.exc # "none" THEN st
    ELSE LET i == st.sample + 1
         IN  CpuCollectdRows(
                 CpuStep(st, mid, RrdInt(lines_utime[i][2]), RrdInt(lines_stime[i][2]), 0, 0),
                 lines_utime, lines_stime, mid, n - 1)

\* CpuHistory.scrap_data_collectd.  which is "new" or "old": the layout the
\* two files are read from (history only).
Cpu_scrap_data_collectd(st, file_utime, file_stime, data_length, measurement_index, which) ==
    LET opened == [st EXCEPT !.sample = 0,
                       !.reads = @ \cup {"rrd1_" \o which}
                                   \cup (IF file_utime.exists THEN {"rrd2_" \o which} ELSE {})]
        read ==
            IF ~(file_utime.exists /\ file_stime.exists) THEN opened
            ELSE IF file_utime.len # data_length \/ file_stime.len # data_length
            THEN [opened EXCEPT !.exc = "AssertionError"]
            ELSE CpuCollectdRows(opened, RrdLines(1, file_utime), RrdLines(2, file_stime),
                                 measurement_index, data_length)
    IN  IF read.exc = "none" /\ data_length - read.sample # 0
        THEN [read EXCEPT !.exc = "AssertionError"]
        ELSE read

\* The names of the exports with the mapper's taken for any other key.
RrdNamesMapperElse(filename) ==
    IF filename = "stat_mosquitto_stdout"
    THEN <<"gauge-mosquitto-utime", "gauge-mosquitto-stime">>
    ELSE <<"gauge-mapper-c8y-utime", "gauge-mapper-c8y-stime">>

\* The names of the two collectd exports for an artifact file key, or none.
RrdNames(filename) ==
    IF filename = "stat_mapper_stdout"
    THEN <<"gauge-mapper-c8y-utime", "gauge-mapper-c8y-stime">>
    ELSE IF filename = "stat_mosquitto_stdout"
    THEN <<"gauge-mosquitto-utime", "gauge-mosquitto-stime">>
    ELSE <<>>

\* SelectSource that prefers the exports of the analytics layout.
SelectSourceExportFirst(statExists, rrdExists, rrdOldExists) ==
    IF rrdExists THEN "secondary"
    ELSE IF statExists THEN "primary"
    ELSE IF rrdOldExists THEN "legacy"
    ELSE "zeros"

\* The source postprocess selects for a run: the first whose file exists.
SelectSource(statExists, rrdExists, rrdOldExists) ==
    IF statExists THEN "primary"
    ELSE IF rrdExists THEN "secondary"
    ELSE IF rrdOldExists THEN "legacy"
    ELSE "zeros"

\* One pass of the loop of CpuHistory.postprocess, after the names are
\* resolved: the files of the run folder are in fs.
Cpu_postprocess_folder(st, fs, data_length, index, binary) ==
    LET source == SelectSource(fs.stat.exists, fs.rrd1.exists, fs.rrd1_old.exists)
    IN  IF source = "primary" THEN Cpu_scrap_data(st, fs.stat, data_length, index, binary)
        ELSE IF source = "secondary"
        THEN Cpu_scrap_data_collectd(st, fs.rrd1, fs.rrd2, data_length, index, "new")
        ELSE IF source = "legacy"
        THEN Cpu_scrap_data_collectd(st, fs.rrd1_old, fs.rrd2_old, data_length, index, "old")
        ELSE Cpu_scrap_zeros(st, data_length, index)

\* ---------------------------------------------------------- MemoryHistory

\* line.split() of line i (from 1) of a /proc/<pid>/statm dump:
\* size resident shared text lib data dt.
StatmLine(i) ==
    << Numeral(90 + i), Numeral(40 + i), Numeral(8), Numeral(6), Numeral(0),
       Numeral(15 + i), Numeral(0) >>

\* The statm dumps of at most max lines: whether the file exists, and the
\* number of its lines.
StatmFiles(max) == {[exists |-> FALSE, len |-> 0]} \cup [exists : {TRUE}, len : 0..max]

NoStatm == [exists |-> FALSE, len |-> 0]

StatmLines(file) == [i \in 1..file.len |-> StatmLine(i)]

\* The five counters of the collectd layout, in the order they are read.
types == <<"size", "resident", "shared", "text", "data">>

\* MemoryHistory.insert_line.
Mem_insert_line(st, idx, mid, sample, size, resident, shared, text, data) ==
    SetRow(st, idx, <<idx, mid, sample, size, resident, shared, text, data>>)

\* One pass of a scrap_* body: insert the row, then sample += 1, row_id += 1.
MemStep(st, mid, size, resident, shared, text, data) ==
    LET w == Mem_insert_line(st, st.row_id, mid, st.sample, size, resident, shared, text, data)
    IN  IF w.exc # "none" THEN w
        ELSE [w EXCEPT !.sample = @ + 1, !.row_id = @ + 1]

RECURSIVE MemZeroRows(_, _, _)
\* n times: insert a zero row for the next sample.
MemZeroRows(st, mid, n) ==
    IF n <= 0 \/ st.exc # "none" THEN st
    ELSE MemZeroRows(MemStep(st, mid, 0, 0, 0, 0, 0), mid, n - 1)

\* MemoryHistory.scrap_zeros.
Mem_scrap_zeros(st, data_length, measurement_index) ==
    MemZeroRows([st EXCEPT !.sample = 0], measurement_index, data_length)

\* The fields scrap_data takes from a statm line: entries[0..3], entries[5];
\* numpy converts the strings when the row is stored.
MemCounters(entries) ==
    << DecimalValue(entries[1]), DecimalValue(entries[2]), DecimalValue(entries[3]),
       DecimalValue(entries[4]), DecimalValue(entries[6]) >>

RECURSIVE MemScrapLines(_, _, _)
\* The loop of scrap_data over the lines of the statm dump: every line
\* makes a row.
MemScrapLines(st, lines, mid) ==
    IF lines = <<>> \/ st.exc # "none" THEN st
    ELSE LET c == MemCounters(Head(lines))
         IN  MemScrapLines(MemStep(st, mid, c[1], c[2], c[3], c[4], c[5]), Tail(lines), mid)

\* MemoryHistory.scrap_data: a row per line, then zero rows for the samples
\* that are missing (none when the dump holds data_length lines or more).
Mem_scrap_data(st, thefile, data_length, measurement_index) ==
    LET opened == [st EXCEPT !.sample = 0, !.reads = @ \cup {"stat"}]
        read == IF thefile.exists
                THEN MemScrapLines(opened, StatmLines(thefile), measurement_index)
                ELSE [opened EXCEPT !.exc = "FileNotFoundError"]
    IN  MemZeroRows(read, measurement_index, data_length - read.sample)

RECURSIVE MemOpenAll(_, _, _, _, _)
\* The first loop of scrap_data_collectd from counter k on: open each
\* export; a missing one is skipped, one of a wrong length fails the assert.
MemOpenAll(st, folder, data_length, which, k) ==
    IF k > Len(types) \/ st.exc # "none" THEN st
    ELSE LET file == folder[types[k]]
             opened == [st EXCEPT !.reads = @ \cup {types[k] \o "_" \o which}]
         IN  MemOpenAll(
                 IF file.exists /\ file.len # data_length
                 THEN [opened EXCEPT !.exc = "AssertionError"]
                 ELSE opened,
                 folder, data_length, which, k + 1)

\* The value db[file][sample][1] stands for: "None" was replaced by 0.
MemInt(text) == IF text = None THEN 0 ELSE IntOfFloat(text)

RECURSIVE MemCollectdRows(_, _, _, _)
\* The last loop of scrap_data_collectd: sample i of the five exports
\* makes one row.
MemCollectdRows(st, folder, mid, n) ==
    IF n <= 0 \/ st.exc # "none" THEN st
    ELSE LET i == st.sample + 1
             v(k) == MemInt(RrdLines(k, folder[types[k]])[i][2])
         IN  MemCollectdRows(MemStep(st, mid, v(1), v(2), v(3), v(4), v(5)), folder, mid, n - 1)

\* MemoryHistory.scrap_data_collectd.  folder maps each counter to its
\* export; which is "new" or "old" (history only).
Mem_scrap_data_collectd(st, folder, data_length, measurement_index, which) ==
    LET start == [st EXCEPT !.sample = 0]
        opened == IF \E k \in 1..Len(types) : folder[types[k]].exists
                  THEN MemOpenAll(start, folder, data_length, which, 1)
                  ELSE [start EXCEPT !.exc = "SystemError"]
        \* the timestamp loop reads db[file][sample] of every counter
        stamped == IF /\ opened.exc = "none"
                      /\ data_length > 0
                      /\ \E k \in 1..Len(types) : ~folder[types[k]].exists
                   THEN [opened EXCEPT !.exc = "KeyError"]
                   ELSE opened
    IN  MemCollectdRows(stamped, folder, measurement_index, data_length)

\* One pass of the loop of MemoryHistory.postprocess: the files of the run
\* folder are in fs.
Mem_postprocess_folder(st, fs, data_length, index) ==
    LET source == SelectSource(fs.stat.exists, fs.coll["resident"].exists,
                               fs.coll_old["resident"].exists)
    IN  IF source = "primary" THEN Mem_scrap_data(st, fs.stat, data_length, index)
        ELSE IF source = "secondary"
        THEN Mem_scrap_data_collectd(st, fs.coll, data_length, index, "new")
        ELSE IF source = "legacy"
        THEN Mem_scrap_data_collectd(st, fs.coll_old, data_length, index, "old")
        ELSE Mem_scrap_zeros(st, data_length, index)

\* ------------------------------------------------------ CpuHistoryStacked

\* self.history: the stacked table holds the last 10 runs.
history == 10

\* len(self.fields): id and a (user, system) pair for t0 .. t9.
NumFields == 21

Min(a, b) == IF a < b THEN a ELSE b

\* ProcessingRange without the history window.
ProcessingRangeAll(mlen) == mlen

\* processing_range of CpuHistoryStacked.postprocess.
ProcessingRange(mlen) == Min(mlen, history)

\* StackedMeasurement walking the window forwards.
StackedMeasurementForward(mlen, j) == mlen - ProcessingRange(mlen) + j

\* The run the j-th pass (from 0) of the backwards loop copies:
\* range(mlen - 1, mlen - processing_range - 1, -1).
StackedMeasurement(mlen, j) == mlen - 1 - j

\* The column the j-th pass writes the user time to: 1, then 2 more a pass.
StackedColumn(j) == 1 + 2 * j

\* self.array[index, column] = value: IndexError outside the table.
SetCell(st, index, column, value) ==
    IF st.exc # "none" THEN st
    ELSE IF index \in DOMAIN st.array /\ column + 1 \in DOMAIN st.array[index]
    THEN [st EXCEPT !.array[index][column + 1] = value]
    ELSE [st EXCEPT !.exc = "IndexError"]

\* cpu_array.array[row, column], or IndexError outside the table.
CopyCell(st, cpu, row, from, index, column) ==
    IF st.exc # "none" THEN st
    ELSE IF row \in DOMAIN cpu
    THEN SetCell(st, index, column, cpu[row][from + 1])
    ELSE [st EXCEPT !.exc = "IndexError"]

RECURSIVE StackedIds(_, _, _)
\* The first loop: the sample index into column 0.
StackedIds(st, data_length, index) ==
    IF index >= data_length THEN st
    ELSE StackedIds(SetCell(st, index, 0, index), data_length, index + 1)

RECURSIVE StackedCopyRun(_, _, _, _, _, _)
\* The inner loop: user and system time of every sample of one run.
StackedCopyRun(st, cpu, data_length, measurement, column, index) ==
    IF index >= data_length \/ st.exc # "none" THEN st
    ELSE LET row == measurement * data_length + index
             u == CopyCell(st, cpu, row, 3, index, column)
             s == CopyCell(u, cpu, row, 4, index, column + 1)
         IN  StackedCopyRun(s, cpu, data_length, measurement, column, index + 1)

RECURSIVE StackedCopyRuns(_, _, _, _, _)
\* The outer loop from its j-th pass on.
StackedCopyRuns(st, cpu, data_length, mlen, j) ==
    IF j >= ProcessingRange(mlen) \/ st.exc # "none" THEN st
    ELSE LET copied == StackedCopyRun(st, cpu, data_length, StackedMeasurement(mlen, j),
                                      StackedColumn(j), 0)
         IN  StackedCopyRuns(
                 IF copied.exc = "none"
                 THEN [copied EXCEPT !.copied = @ \cup {StackedMeasurement(mlen, j)}]
                 ELSE copied,
                 cpu, data_length, mlen, j + 1)

\* CpuHistoryStacked.postprocess: [array, exc, copied (history: the runs
\* whose columns were copied)].
Stacked_postprocess(arr, data_length, mlen, cpu) ==
    StackedCopyRuns(
        StackedIds([array |-> arr, exc |-> "none", copied |-> {}], data_length, 0),
        cpu, data_length, mlen, 0)

\* ----------------------------------------------------------------- export

\* Cpu_record with cstime read from the column of cutime.
Cpu_record_cutime_twice(row) ==
    [id |-> row[1], mid |-> row[2], sample |-> row[3], utime |-> row[4],
     stime |-> row[5], cutime |-> row[6], cstime |-> row[6]]

\* The record CpuHistory.update_table builds from a row.
Cpu_record(row) ==
    [id |-> row[1], mid |-> row[2], sample |-> row[3], utime |-> row[4],
     stime |-> row[5], cutime |-> row[6], cstime |-> row[7]]

\* The record MemoryHistory.update_table builds from a row: "data" is read
\* from column 6, as "text" is.
Mem_record(row) ==
    [id |-> row[1], mid |-> row[2], sample |-> row[3], size |-> row[4],
     resident |-> row[5], shared |-> row[6], text |-> row[7], data |-> row[7]]

\* json_data of update_table: a record per row, for i in range(self.size).
Cpu_json_data(arr, size) == [i \in 1..size |-> Cpu_record(arr[i - 1])]

Mem_json_data(arr, size) == [i \in 1..size |-> Mem_record(arr[i - 1])]

\* ----------------------------------------------------------------- inputs

\* The folder names handed to postprocess: results_0_unpack,
\* results_1_unpack, and run_7, which does not match the pattern.
FolderName(n) == ResultsPrefix \o Numeral(n) \o UnpackSuffix

BadFolderName == <<"r", "u", "n", "_", "7">>

GoodFolderNames == {FolderName(0), FolderName(1)}

\* The artifact file keys handed to postprocess.
Filenames == {"stat_mapper_stdout", "stat_mosquitto_stdout", "stat_other_stdout"}

\* A stat dump of n lines of the wanted process.
StatFileOf(n) == [exists |-> TRUE, lines |-> [i \in 1..n |-> "A"]]

CpuFiles(stat, rrd1, rrd2, rrd1_old, rrd2_old) ==
    [stat |-> stat, rrd1 |-> rrd1, rrd2 |-> rrd2, rrd1_old |-> rrd1_old, rrd2_old |-> rrd2_old]

\* The files of one run folder of a table of n samples a run, as
\* CpuHistory.postprocess names them: the stat dump, the two exports of
\* the analytics layout and the two of the old one.
CpuRunFiles(n) ==
    {CpuFiles(s, NoRrd, NoRrd, NoRrd, NoRrd) : s \in StatFiles(MaxLines)}
    \cup
    {CpuFiles([exists |-> TRUE, lines |-> l], Present(n, 2), Present(n, 2),
              Present(n, 2), Present(n, 2)) : l \in {<<>>, <<"N">>, <<"A">>}}
    \cup
    {CpuFiles(NoStat, r1, r2, o, o) :
        r1 \in ExistingRrdFiles(MaxLines) \cup {Present(n, 2)},
        r2 \in ExistingRrdFiles(MaxLines) \cup {NoRrd},
        o \in {NoRrd, Present(n, 2)}}
    \cup
    {CpuFiles(NoStat, NoRrd, x, r1, r2) :
        r1 \in ExistingRrdFiles(MaxLines) \cup {Present(n, 2)},
        r2 \in ExistingRrdFiles(MaxLines) \cup {NoRrd},
        x \in {NoRrd, Present(n, 2)}}

\* The files of the runs before the last one a table has room for: a run
\* of each source, the stat dump an overlong one.
CpuBaseFiles(n) ==
    { CpuFiles(NoStat, NoRrd, NoRrd, NoRrd, NoRrd),
      CpuFiles(StatFileOf(n + 1), NoRrd, NoRrd, NoRrd, NoRrd),
      CpuFiles(NoStat, Present(n, 2), Present(n, 2), NoRrd, NoRrd),
      CpuFiles(NoStat, NoRrd, NoRrd, Present(n, 1), Present(n, 1)) }

TypeSet == {types[k] : k \in 1..Len(types)}

\* A folder of memory exports of n lines each: the export named missing
\* does not exist, the one named odd holds a line more.
MemFolder(n, v, missing, odd) ==
    [t \in TypeSet |->
        IF t = missing THEN NoRrd ELSE Present(IF t = odd THEN n + 1 ELSE n, v)]

NoFolder == [t \in TypeSet |-> NoRrd]

MemFolders(n) ==
    {MemFolder(k, v, "none", "none") : k \in 0..MaxLines, v \in {1, 2}}
    \cup {MemFolder(n, 1, m, "none") : m \in TypeSet \ {"resident"}}
    \cup {MemFolder(n, 1, "none", o) : o \in TypeSet}

MemFiles(stat, coll, coll_old) == [stat |-> stat, coll |-> coll, coll_old |-> coll_old]

\* The files of one run folder of a table of n samples a run, as
\* MemoryHistory.postprocess names them: the statm dump, the folder of the
\* analytics layout and the folder of the old one.
MemRunFiles(n) ==
    {MemFiles(s, NoFolder, NoFolder) : s \in StatmFiles(MaxLines)}
    \cup
    {MemFiles(s, MemFolder(n, 2, "none", "none"), MemFolder(n, 2, "none", "none")) :
        s \in {[exists |-> TRUE, len |-> 0], [exists |-> TRUE, len |-> 1]}}
    \cup
    {MemFiles(NoStatm, f, o) :
        f \in MemFolders(n), o \in {NoFolder, MemFolder(n, 2, "none", "none")}}
    \cup
    {MemFiles(NoStatm, x, f) :
        f \in MemFolders(n), x \in {NoFolder, MemFolder(n, 2, "resident", "none")}}

MemBaseFiles(n) ==
    { MemFiles(NoStatm, NoFolder, NoFolder),
      MemFiles([exists |-> TRUE, len |-> n + 1], NoFolder, NoFolder),
      MemFiles(NoStatm, MemFolder(n, 2, "none", "none"), NoFolder),
      MemFiles(NoStatm, NoFolder, MemFolder(n, 1, "none", "none")) }

\* ------------------------------------------------------------------ state

VARIABLES
    kind,         \* "cpu": a CpuHistory table, "mem": a MemoryHistory table
    data_amount,  \* self.data_amount
    data_length,  \* self.data_length
    filename,     \* the artifact file key given to postprocess
    client,       \* whether self.client is a store client (not None)
    array,        \* self.array
    row_id,       \* self.row_id
    folders,      \* the folders postprocess has iterated over, in order
    pc,           \* where the table is in its life
    exc,          \* the exception that was raised, or "none"
    run,          \* history: the last pass of the loop of postprocess
    log,          \* history: every row written: [p, idx, sample]
    sarray,       \* the array of the CpuHistoryStacked table
    spc,          \* where the stacked table is in its life
    scopied,      \* history: the runs the stacked table copied
    json_data,    \* self.json_data
    calls,        \* history: the calls made to the store client and its job
    job,          \* the load job of the store: "none", "running", "done", "errors"
    utable,       \* the table update_table was called on: "none", "own", "stacked", "meta"
    marray,       \* the array of the MeasurementMetadata table
    mpc,          \* where the metadata table is in its life
    system_test_runs,  \* main: the runs get_all_system_test_runs returned
    lake,         \* the run numbers whose artifact file exists in the lake
    skip_counter, \* main: skip_counter
    next_run,     \* main: the position in system_test_runs of the next run
    dpc,          \* where main is: "idle", "running", "returned", "raised"
    rets,         \* history: what get_artifacts_for_runid returned, run by run
    requested     \* history: the downloads requested: [run_number, existed]

\* The state of the download of the artifacts.
dvars == <<system_test_runs, lake, skip_counter, next_run, dpc, rets, requested>>

vars == <<kind, data_amount, data_length, filename, client, array, row_id, folders,
          pc, exc, run, log, sarray, spc, scopied, json_data, calls, job,
          utable, marray, mpc, dvars>>

\* main of the download has not been started.
DownloadIdle ==
    /\ system_test_runs = <<>>
    /\ lake = {}
    /\ skip_counter = 0
    /\ next_run = 1
    /\ dpc = "idle"
    /\ rets = <<>>
    /\ requested = <<>>

\* self.size.
size == data_length * data_amount

\* The width of the table of a kind: 7 columns for CPU, 8 for memory.
Width(k) == IF k = "cpu" THEN 7 ELSE 8

\* No pass of the loop has been made (or postprocess has returned).
NoRun == [p |-> -1, source |-> "none", exc |-> "none"]

\* The next run folder.  The last run a table has room for draws its name
\* and its files from the whole sets; the runs before it are named after
\* their position and draw their files from the base set.
LastRunNext == Len(folders) = data_amount - 1

NamesOfNext == IF LastRunNext THEN GoodFolderNames ELSE {FolderName(Len(folders))}

CpuFilesOfNext ==
    IF LastRunNext THEN CpuRunFiles(data_length)
    ELSE CpuBaseFiles(data_length)

MemFilesOfNext ==
    IF LastRunNext THEN MemRunFiles(data_length)
    ELSE MemBaseFiles(data_length)

\* The tables as constructed: __init__ of MeasurementBase, CpuHistory,
\* MemoryHistory and CpuHistoryStacked.  The key of mosquitto is given to
\* tables for a single run, a store client to tables for a single run of a
\* single sample.
Init ==
    /\ kind \in {"cpu", "mem"}
    /\ data_amount \in 1..MaxDataAmount
    /\ data_length \in 1..MaxDataLength
    /\ filename \in Filenames
    /\ client \in BOOLEAN
    /\ (client \/ filename = "stat_mosquitto_stdout") => data_amount = 1
    /\ client => data_length = 1
    /\ array = Zeros(data_length * data_amount, Width(kind))
    /\ row_id = 0
    /\ folders = <<>>
    /\ pc = "postprocess"
    /\ exc = "none"
    /\ run = NoRun
    /\ log = <<>>
    /\ sarray = Zeros(data_length, NumFields)
    /\ spc = "fresh"
    /\ scopied = {}
    /\ json_data = <<>>
    /\ calls = <<>>
    /\ job = "none"
    /\ utable = "none"
    /\ marray = <<>>
    /\ mpc = "fresh"
    /\ DownloadIdle

\* ---------------------------------------------------------------- actions

\* postprocess: foldername_to_index raises SystemError for the next folder.
PostprocessBadFolder ==
    /\ pc = "postprocess"
    /\ Len(folders) < data_amount
    /\ foldername_to_index(BadFolderName).exc # "none"
    /\ folders' = Append(folders, BadFolderName)
    /\ pc' = "raised"
    /\ exc' = foldername_to_index(BadFolderName).exc
    /\ run' = [p |-> Len(folders), source |-> "none", exc |-> exc']
    /\ UNCHANGED <<dvars, kind, data_amount, data_length, filename, client, array, row_id, log,
                   sarray, spc, scopied, json_data, calls, job,
                   utable, marray, mpc>>

\* CpuHistory.postprocess: the file key is none of the two known ones.
CpuPostprocessBadFilename ==
    /\ pc = "postprocess"
    /\ kind = "cpu"
    /\ Len(folders) < data_amount
    /\ RrdNames(filename) = <<>>
    /\ \E folder \in NamesOfNext : folders' = Append(folders, folder)
    /\ pc' = "raised"
    /\ exc' = "SystemError"
    /\ run' = [p |-> Len(folders), source |-> "none", exc |-> exc']
    /\ UNCHANGED <<dvars, kind, data_amount, data_length, filename, client, array, row_id, log,
                   sarray, spc, scopied, json_data, calls, job,
                   utable, marray, mpc>>

\* What a pass of the loop leaves behind.
AfterPass(folder, fs, source, st) ==
    /\ folders' = Append(folders, folder)
    /\ array' = st.array
    /\ row_id' = st.row_id
    /\ log' = st.log
    /\ exc' = st.exc
    /\ pc' = IF st.exc = "none" THEN "postprocess" ELSE "raised"
    /\ run' = [p |-> Len(folders), source |-> source, exc |-> st.exc, fs |-> fs,
               index |-> foldername_to_index(folder).index, start |-> row_id,
               reads |-> st.reads,
               omitted |-> st.omitted]

\* CpuHistory.postprocess: one pass of its loop, for the next folder.
CpuPostprocessFolder ==
    /\ pc = "postprocess"
    /\ kind = "cpu"
    /\ Len(folders) < data_amount
    /\ RrdNames(filename) # <<>>
    /\ \E folder \in NamesOfNext, fs \in CpuFilesOfNext :
          AfterPass(folder, fs,
                    SelectSource(fs.stat.exists, fs.rrd1.exists, fs.rrd1_old.exists),
                    Cpu_postprocess_folder(Scrap(array, row_id, Len(folders), log), fs,
                                           data_length,
                                           foldername_to_index(folder).index, Binary))
    /\ UNCHANGED <<dvars, kind, data_amount, data_length, filename, client,
                   sarray, spc, scopied, json_data, calls, job,
                   utable, marray, mpc>>

\* MemoryHistory.postprocess: one pass of its loop, for the next folder.
MemPostprocessFolder ==
    /\ pc = "postprocess"
    /\ kind = "mem"
    /\ Len(folders) < data_amount
    /\ \E folder \in NamesOfNext, fs \in MemFilesOfNext :
          AfterPass(folder, fs,
                    SelectSource(fs.stat.exists, fs.coll["resident"].exists,
                                 fs.coll_old["resident"].exists),
                    Mem_postprocess_folder(Scrap(array, row_id, Len(folders), log), fs,
                                           data_length,
                                           foldername_to_index(folder).index))
    /\ UNCHANGED <<dvars, kind, data_amount, data_length, filename, client,
                   sarray, spc, scopied, json_data, calls, job,
                   utable, marray, mpc>>

\* postprocess returns: the list of folders is exhausted.
PostprocessReturn ==
    /\ pc = "postprocess"
    /\ pc' = "returned"
    /\ run' = NoRun
    /\ UNCHANGED <<dvars, kind, data_amount, data_length, filename, client, array, row_id, folders,
                   exc, log, sarray, spc, scopied, json_data, calls, job,
                   utable, marray, mpc>>

\* CpuHistoryStacked.postprocess(folders, cpu) on the table as constructed.
StackedPostprocess ==
    /\ pc = "returned"
    /\ kind = "cpu"
    /\ spc = "fresh"
    /\ LET st == Stacked_postprocess(sarray, data_length, Len(folders), array)
       IN  /\ sarray' = st.array
           /\ scopied' = st.copied
           /\ spc' = IF st.exc = "none" THEN "returned" ELSE st.exc
    /\ UNCHANGED <<dvars, kind, data_amount, data_length, filename, client, array, row_id, folders,
                   pc, exc, run, log, json_data, calls, job,
                   utable, marray, mpc>>

\* MeasurementBase.delete_table: the call to the store and what leaves the
\* try block.  The bare except swallows whatever the store raises, and the
\* AttributeError of a client that is None, which reaches no store.
delete_table_raising(cl, found) ==
    IF ~cl THEN [calls |-> <<>>, exc |-> "none"]
    ELSE IF found THEN [calls |-> <<"delete_table">>, exc |-> "none"]
    ELSE [calls |-> <<"delete_table:NotFound">>, exc |-> "NotFound"]

delete_table(cl, found) ==
    IF ~cl THEN [calls |-> <<>>, exc |-> "none"]
    ELSE IF found THEN [calls |-> <<"delete_table">>, exc |-> "none"]
    ELSE [calls |-> <<"delete_table:NotFound">>, exc |-> "none"]

\* upload_table: the load job is started only with a client.
SubmitLoad(cl) == IF cl THEN <<"load_table_from_json">> ELSE <<>>

\* The document system_test_<index>_metadata.json as scrap_data reads it.
MetaDoc(index) ==
    [run_number |-> 500 + index, updated_at |-> "updated_at", html_url |-> "html_url",
     name |-> "name", head_branch |-> "head_branch"]

\* MeasurementMetadata.postprocess over the folders fs, from position p on
\* with the rows arr: docs[p] tells whether the document of the folder at
\* position p can be opened.
RECURSIVE Meta_postprocess(_, _, _, _)
Meta_postprocess(fs, docs, p, arr) ==
    IF p > Len(fs) THEN [array |-> arr, exc |-> "none"]
    ELSE LET r == foldername_to_index(fs[p])
         IN  IF r.exc # "none" THEN [array |-> arr, exc |-> r.exc]
             ELSE IF ~docs[p] THEN [array |-> arr, exc |-> "FileNotFoundError"]
             ELSE LET d == MetaDoc(r.index)
                  IN  Meta_postprocess(fs, docs, p + 1,
                          Append(arr, <<p - 1, d.run_number, d.updated_at, d.html_url,
                                        d.name, d.head_branch>>))

\* A record of the export of the metadata table.
Meta_record(row) ==
    [id |-> row[1], mid |-> row[2], date |-> row[3], url |-> row[4],
     name |-> row[5], branch |-> row[6]]

\* json_data of MeasurementMetadata.update_table: one record for each of
\* data_amount rows; a list with fewer rows raises IndexError after the
\* records of the rows it has.
Meta_json_data(arr, amount) ==
    [data |-> [i \in 1..Min(amount, Len(arr)) |-> Meta_record(arr[i])],
     exc |-> IF Len(arr) < amount THEN "IndexError" ELSE "none"]

\* json_data of CpuHistoryStacked.update_table: one record for each of the
\* data_length rows, a value for each of the fields.
Stacked_json_data(arr, len) == [i \in 1..len |-> arr[i - 1]]

\* The documents of the folders: those of the first k folders can be opened.
MetaDocs == {[p \in 1..Len(folders) |-> p <= k] : k \in 0..Len(folders)}

\* MeasurementMetadata.postprocess(folders) on the table as constructed.
MetaPostprocess ==
    /\ pc = "returned"
    /\ mpc = "fresh"
    /\ \E docs \in MetaDocs :
          LET st == Meta_postprocess(folders, docs, 1, marray)
          IN  /\ marray' = st.array
              /\ mpc' = IF st.exc = "none" THEN "returned" ELSE st.exc
    /\ UNCHANGED <<dvars, kind, data_amount, data_length, filename, client, array, row_id, folders,
                   pc, exc, run, log, sarray, spc, scopied, json_data, calls, job, utable>>

\* update_table of a table, up to the start of the load job: delete_table,
\* json_data (json is what building the records gives), and upload_table,
\* which starts the load job if there is a client.
UpdateTableOf(table, json) ==
    \E found \in BOOLEAN :
        LET d == delete_table(client, found)
            raised == IF d.exc # "none" THEN d.exc ELSE json.exc
        IN  /\ utable' = table
            /\ json_data' = IF d.exc = "none" THEN json.data ELSE json_data
            /\ calls' = calls \o d.calls \o
                        (IF raised = "none" THEN SubmitLoad(client) ELSE <<>>)
            /\ job' = IF raised = "none" /\ client THEN "running" ELSE job
            /\ pc' = IF raised # "none" THEN "raised"
                     ELSE IF client THEN "uploading" ELSE "exported"
            /\ exc' = IF raised # "none" THEN raised ELSE exc

\* update_table of CpuHistory and MemoryHistory.
UpdateTable ==
    /\ pc = "returned"
    /\ UpdateTableOf("own", [data |-> IF kind = "cpu" THEN Cpu_json_data(array, size)
                                      ELSE Mem_json_data(array, size),
                             exc |-> "none"])
    /\ UNCHANGED <<dvars, kind, data_amount, data_length, filename, client, array, row_id, folders,
                   run, log, sarray, spc, scopied, marray, mpc>>

\* update_table of CpuHistoryStacked, after its postprocess.
StackedUpdateTable ==
    /\ pc = "returned"
    /\ spc = "returned"
    /\ UpdateTableOf("stacked", [data |-> Stacked_json_data(sarray, data_length),
                                 exc |-> "none"])
    /\ UNCHANGED <<dvars, kind, data_amount, data_length, filename, client, array, row_id, folders,
                   run, log, sarray, spc, scopied, marray, mpc>>

\* update_table of MeasurementMetadata, after its postprocess.
MetaUpdateTable ==
    /\ pc = "returned"
    /\ mpc = "returned"
    /\ UpdateTableOf("meta", Meta_json_data(marray, data_amount))
    /\ UNCHANGED <<dvars, kind, data_amount, data_length, filename, client, array, row_id, folders,
                   run, log, sarray, spc, scopied, marray, mpc>>

\* The polls of the load job upload_table waits through.
MaxPolls == 2

Polls == Cardinality({i \in 1..Len(calls) : calls[i] = "running:True"})

\* The store finishes the load job, with or without errors.
JobCompletes ==
    /\ pc = "uploading"
    /\ job = "running"
    /\ job' \in {"done", "errors"}
    /\ UNCHANGED <<dvars, kind, data_amount, data_length, filename, client, array, row_id, folders,
                   pc, exc, run, log, sarray, spc, scopied, json_data, calls,
                   utable, marray, mpc>>

\* upload_table: load_job.running() is true; sleep and poll again.
UploadWait ==
    /\ pc = "uploading"
    /\ job = "running"
    /\ Polls < MaxPolls
    /\ calls' = Append(calls, "running:True")
    /\ UNCHANGED <<dvars, kind, data_amount, data_length, filename, client, array, row_id, folders,
                   pc, exc, run, log, sarray, spc, scopied, json_data, job,
                   utable, marray, mpc>>

\* upload_table after its loop: load_job.errors is read, nothing is raised.
UploadExitSilent(errors) ==
    [calls |-> <<"running:False", IF errors THEN "errors:some" ELSE "errors:none">>,
     exc |-> "none"]

\* upload_table after its loop: load_job.errors is read and SystemError
\* raised if there are any.
UploadExit(errors) ==
    [calls |-> <<"running:False", IF errors THEN "errors:some" ELSE "errors:none">>,
     exc |-> IF errors THEN "SystemError" ELSE "none"]

\* upload_table leaving its loop only for a job without errors.
UploadFinishWhenClean ==
    /\ pc = "uploading"
    /\ job = "done"
    /\ calls' = calls \o UploadExit(FALSE).calls
    /\ pc' = "exported"
    /\ UNCHANGED <<dvars, kind, data_amount, data_length, filename, client, array, row_id, folders,
                   exc, run, log, sarray, spc, scopied, json_data, job, utable, marray, mpc>>

\* upload_table: load_job.running() is false, the loop is left.
UploadFinish ==
    /\ pc = "uploading"
    /\ job \in {"done", "errors"}
    /\ LET e == UploadExit(job = "errors")
       IN  /\ calls' = calls \o e.calls
           /\ pc' = IF e.exc # "none" THEN "raised" ELSE "exported"
           /\ exc' = IF e.exc # "none" THEN e.exc ELSE exc
    /\ UNCHANGED <<dvars, kind, data_amount, data_length, filename, client, array, row_id, folders,
                   run, log, sarray, spc, scopied, json_data, job, utable, marray, mpc>>

Next ==
    \/ PostprocessBadFolder
    \/ CpuPostprocessBadFilename
    \/ CpuPostprocessFolder
    \/ MemPostprocessFolder
    \/ PostprocessReturn
    \/ StackedPostprocess
    \/ MetaPostprocess
    \/ UpdateTable
    \/ StackedUpdateTable
    \/ MetaUpdateTable
    \/ JobCompletes
    \/ UploadWait
    \/ UploadFinish

Spec == Init /\ [][Next]_vars

\* The tables with the thread of upload_table running on: its loop polls
\* again after every sleep and leaves once a poll finds the job finished.
\* Nothing makes the store finish the job.
SpecLive == Spec /\ WF_vars(UploadWait) /\ WF_vars(UploadFinish)

\* ------------------------------------------------- the stacked table alone

\* The most runs a CPU table handed to the stacked table holds.
MaxStackedRuns == 12

\* The number of different fillings of such a CPU table.
MaxSeed == 3

\* A CPU table after postprocess over n runs named after their position:
\* every row written, the times different in every row and run.
FilledCpuArray(n, len, seed) ==
    [i \in 0..(n * len - 1) |->
        << i, i \div len, i % len,
           1000 * seed + 10 * (i \div len) + (i % len),
           2000 * seed + 10 * (i \div len) + (i % len) + 5, 0, 0 >>]

\* The CPU table has been filled by postprocess over n runs; the stacked
\* table is as constructed.
InitStacked ==
    \E n \in 0..MaxStackedRuns, seed \in 1..MaxSeed :
        /\ kind = "cpu"
        /\ data_amount = n
        /\ data_length \in 1..MaxDataLength
        /\ filename = "stat_mapper_stdout"
        /\ client = FALSE
        /\ array = FilledCpuArray(n, data_length, seed)
        /\ row_id = n * data_length
        /\ folders = [p \in 1..n |-> FolderName(p - 1)]
        /\ pc = "returned"
        /\ exc = "none"
        /\ run = NoRun
        /\ log = [k \in 1..(n * data_length) |->
                     [p |-> (k - 1) \div data_length, idx |-> k - 1,
                      sample |-> (k - 1) % data_length]]
        /\ sarray = Zeros(data_length, NumFields)
        /\ spc = "fresh"
        /\ scopied = {}
        /\ json_data = <<>>
        /\ calls = <<>>
        /\ job = "none"
        /\ utable = "none"
        /\ marray = <<>>
        /\ mpc = "fresh"
        /\ DownloadIdle

NextStacked == StackedPostprocess

SpecStacked == InitStacked /\ [][NextStacked]_vars

\* ------------------------------------------------------------- properties

\* The positions, in order, of the writes the run at position p made.
WritesOf(p) == SelectSeq(log, LAMBDA w : w.p = p)

\* The folder number of the run at position p.
IndexOf(p) == foldername_to_index(folders[p + 1]).index

\* The row_id the run at position p began with: the index of its first
\* write.
StartOf(p) == WritesOf(p)[1].idx

AcceptedAt(file) == SelectSeq([i \in 1..Len(file.lines) |-> i], LAMBDA i : file.lines[i] = "A")

\* The row sample s of a run is to hold when the run read the stat dump
\* file: the counters of the accepted line s, or zeros past the last one.
ExpectedCpuRow(file, start, mid, s) ==
    LET at == AcceptedAt(file)
    IN  IF s < Len(at)
        THEN <<start + s, mid, s>> \o StatCounters(at[s + 1])
        ELSE <<start + s, mid, s, 0, 0, 0, 0>>

\* The run at position p wrote exactly the rows of its block, once each,
\* in ascending order of the sample.
WroteOwnBlock(p) ==
    WritesOf(p) = [k \in 1..data_length |->
                      [p |-> p, idx |-> p * data_length + k - 1, sample |-> k - 1]]

\* C2: as long as CpuHistory.postprocess has raised nothing, and so when
\* it returns, the run at position p has written exactly the rows
\* p * data_length .. p * data_length + data_length - 1, once each, with the
\* samples 0 .. data_length - 1 in ascending order, and row_id is the
\* number of runs processed times data_length.
C2_CpuBlocks ==
    (kind = "cpu" /\ pc \in {"postprocess", "returned"}) =>
        /\ row_id = Len(folders) * data_length
        /\ Len(log) = Len(folders) * data_length
        /\ \A p \in 0..(Len(folders) - 1) : WroteOwnBlock(p)
        /\ \A k \in 1..Len(log) :
              /\ array[log[k].idx][1] = log[k].idx
              /\ array[log[k].idx][3] = log[k].sample

\* CpuHistory.postprocess has returned from a full list of runs: one read
\* its stat dump, another was filled with zeros.
C2_Witness ==
    /\ kind = "cpu"
    /\ pc = "returned"
    /\ Len(folders) = data_amount
    /\ data_amount >= 2
    /\ data_length >= 2
    /\ array[0][4] # 0
    /\ array[data_length][4] = 0

\* The last pass read the stat dump of a CPU run.
CpuPrimaryRun == kind = "cpu" /\ run.p >= 0 /\ run.source = "primary"

\* C3: when the stat dump of a CPU run holds more than data_length
\* accepted lines, scrap_data raises nothing, writes exactly the
\* data_length rows of the block of the run, holding the first
\* data_length accepted lines in file order, omits the others and advances
\* row_id by data_length.
C3_CpuTruncation ==
    (CpuPrimaryRun /\ Len(AcceptedAt(run.fs.stat)) > data_length) =>
        /\ run.exc = "none"
        /\ run.start = run.p * data_length
        /\ row_id = run.start + data_length
        /\ WroteOwnBlock(run.p)
        /\ run.omitted = Len(AcceptedAt(run.fs.stat)) - data_length
        /\ \A s \in 0..(data_length - 1) :
              array[run.start + s] = ExpectedCpuRow(run.fs.stat, run.start, run.index, s)

\* The second run of a table read a stat dump of data_length + 2 accepted
\* lines and a rejected one.
C3_Witness ==
    /\ CpuPrimaryRun
    /\ run.p = 1
    /\ Len(AcceptedAt(run.fs.stat)) = data_length + 2
    /\ Len(run.fs.stat.lines) > data_length + 2
    /\ run.exc = "none"
    /\ row_id = 2 * data_length

\* C4: when fewer than data_length lines of the stat dump of a CPU run are
\* accepted (52 fields, entries[1] the binary in parentheses), the first
\* rows of the block hold entries[13] .. entries[16] of the accepted lines
\* in file order, whatever rejected lines lie between them, and the other
\* rows of the block are zero but for id, mid and sample.
C4_CpuPadding ==
    (CpuPrimaryRun /\ Len(AcceptedAt(run.fs.stat)) < data_length) =>
        /\ run.exc = "none"
        /\ row_id = run.start + data_length
        /\ WroteOwnBlock(run.p)
        /\ run.omitted = 0
        /\ \A s \in 0..(data_length - 1) :
              array[run.start + s] = ExpectedCpuRow(run.fs.stat, run.start, run.index, s)

\* data_length is 3 and the stat dump holds two accepted lines with
\* rejected lines of both kinds around them: the third row is zero.
C4_Witness ==
    /\ CpuPrimaryRun
    /\ data_length = 3
    /\ run.fs.stat.lines = <<"N", "A", "F", "A">>
    /\ array[run.start + 1][4] = StatCounters(4)[1]
    /\ array[run.start + 2] = <<run.start + 2, run.index, 2, 0, 0, 0, 0>>

\* The last pass found none of the three sources of the run.
NoSourceRun ==
    /\ run.p >= 0
    /\ run.source # "none"
    /\ ~run.fs.stat.exists
    /\ IF kind = "cpu" THEN ~run.fs.rrd1.exists /\ ~run.fs.rrd1_old.exists
       ELSE ~run.fs.coll["resident"].exists /\ ~run.fs.coll_old["resident"].exists

\* C5: when none of the three sources of a run exists, postprocess (of a
\* CPU or of a memory table) raises nothing and writes exactly data_length
\* rows for the run, zero but for id, mid and sample, and row_id is left at
\* the row after them, where the next run starts.
C5_ZeroFill ==
    NoSourceRun =>
        /\ run.exc = "none"
        /\ row_id = run.start + data_length
        /\ WritesOf(run.p) = [k \in 1..data_length |->
                                 [p |-> run.p, idx |-> run.start + k - 1, sample |-> k - 1]]
        /\ \A s \in 0..(data_length - 1) :
              array[run.start + s] =
                  <<run.start + s, run.index, s>> \o ZeroRow(Width(kind) - 3)

\* The files of a source, as the names the history of a pass records.
FilesOf(source) ==
    IF source = "primary" THEN {"stat"}
    ELSE IF source = "zeros" THEN {}
    ELSE LET which == IF source = "secondary" THEN "_new" ELSE "_old"
         IN  IF kind = "cpu" THEN {"rrd1" \o which, "rrd2" \o which}
             ELSE {t \o which : t \in TypeSet}

\* Whether the file postprocess tests for a source exists in the folder.
SourceExists(fs, source) ==
    IF source = "primary" THEN fs.stat.exists
    ELSE IF kind = "cpu"
    THEN (IF source = "secondary" THEN fs.rrd1.exists ELSE fs.rrd1_old.exists)
    ELSE (IF source = "secondary" THEN fs.coll["resident"].exists
          ELSE fs.coll_old["resident"].exists)

Priority == <<"primary", "secondary", "legacy">>

\* C6: for every run folder postprocess uses one source, the first of
\* primary, secondary, legacy whose file exists, or the zero fill when none
\* does, and opens no file of another source.
C6_SourcePriority ==
    (run.p >= 0 /\ run.source # "none") =>
        /\ \/ /\ run.source = "zeros"
              /\ \A k \in 1..3 : ~SourceExists(run.fs, Priority[k])
           \/ \E k \in 1..3 :
                 /\ run.source = Priority[k]
                 /\ SourceExists(run.fs, Priority[k])
                 /\ \A h \in 1..(k - 1) : ~SourceExists(run.fs, Priority[h])
        /\ run.reads \subseteq FilesOf(run.source)
        /\ run.source # "zeros" => run.reads # {}

\* The stat dump of a CPU run holds no accepted line and both layouts of
\* the exports exist: only the stat dump was opened, the block is zero.
C6_Witness ==
    /\ CpuPrimaryRun
    /\ run.fs.stat.lines = <<"N">>
    /\ run.fs.rrd1.exists /\ run.fs.rrd2.exists /\ run.fs.rrd1_old.exists
    /\ run.reads = {"stat"}
    /\ run.exc = "none"
    /\ \A s \in 0..(data_length - 1) : array[run.start + s][4] = 0

\* C7: after CpuHistoryStacked.postprocess over n folders, column 0 of row
\* s is s, and for j below min(n, history) the columns 1 + 2j and 2 + 2j
\* of row s are utime and stime of the CPU row (n - 1 - j) * data_length
\* + s: the run processed last fills the first pair.
C7_StackedOrder ==
    spc = "returned" =>
        LET n == Len(folders)
        IN  \A s \in 0..(data_length - 1) :
               /\ sarray[s][1] = s
               /\ \A j \in 0..(Min(n, history) - 1) :
                     /\ sarray[s][2 + 2 * j] = array[(n - 1 - j) * data_length + s][4]
                     /\ sarray[s][3 + 2 * j] = array[(n - 1 - j) * data_length + s][5]

\* The stacked table was built from more runs than it holds: its first
\* pair is the last run, its last pair the run history - 1 before it.
C7_Witness ==
    /\ spc = "returned"
    /\ Len(folders) = history + 2
    /\ data_length >= 2
    /\ sarray[1][2] = array[(history + 1) * data_length + 1][4]
    /\ sarray[1][2 * history + 1] = array[2 * data_length + 1][5]
    /\ sarray[1][2] # sarray[1][4]

\* C8: for any number n of runs CpuHistoryStacked.postprocess raises
\* nothing, copies exactly the min(n, history) last runs, none at a
\* position below n - history, fills their column pairs and leaves the
\* columns from 1 + 2 * min(n, history) on at zero; the table keeps
\* data_length rows of 1 + 2 * history columns.
C8_StackedWindow ==
    spc # "fresh" =>
        LET n == Len(folders)
            filled == IF n < history THEN n ELSE history
        IN  /\ spc = "returned"
            /\ scopied = {m \in 0..(n - 1) : m >= n - history}
            /\ Cardinality(scopied) = filled
            /\ DOMAIN sarray = 0..(data_length - 1)
            /\ \A s \in 0..(data_length - 1) :
                  /\ Len(sarray[s]) = 1 + 2 * history
                  /\ \A c \in 1..(2 * filled) : sarray[s][c + 1] # 0
                  /\ \A c \in (1 + 2 * filled)..(2 * history) : sarray[s][c + 1] = 0

\* The stacked table was built from history + 2 runs: the first two were
\* not copied.
C8_Witness ==
    /\ spc = "returned"
    /\ Len(folders) = history + 2
    /\ scopied = 2..(history + 1)
    /\ sarray[0][2 * history + 1] # 0

\* update_table has built json_data.
Updated == utable = "own" /\ pc \in {"uploading", "exported"}

\* C9: CpuHistory.update_table builds data_amount * data_length records,
\* record i from the columns 0..6 of row i of the array, and leaves the
\* array as it was.
C9_CpuExport ==
    [][(kind = "cpu" /\ pc = "returned" /\ Updated') =>
          /\ array' = array
          /\ Len(json_data') = data_amount * data_length
          /\ \A i \in 0..(data_amount * data_length - 1) :
                json_data'[i + 1] =
                    [id |-> array[i][1], mid |-> array[i][2], sample |-> array[i][3],
                     utime |-> array[i][4], stime |-> array[i][5],
                     cutime |-> array[i][6], cstime |-> array[i][7]]]_vars

\* A CPU table that read a stat dump was exported.
C9_Witness ==
    /\ kind = "cpu"
    /\ pc = "exported"
    /\ Len(json_data) = data_amount * data_length
    /\ data_length >= 2
    /\ json_data[2].id = 1
    /\ json_data[2].cutime = StatCounters(2)[3]
    /\ json_data[2].cstime = StatCounters(2)[4]

\* C10: in every export that follows postprocess every row has been
\* written: record i has id i and sample i mod data_length.
C10_PopulatedBeforeExport ==
    Updated =>
        /\ \A i \in 0..(size - 1) : \E k \in 1..Len(log) : log[k].idx = i
        /\ \A i \in 1..Len(json_data) :
              /\ json_data[i].id = i - 1
              /\ json_data[i].sample = (i - 1) % data_length

\* The last call made to the store or its job, "none" before the first.
LastCall == IF calls = <<>> THEN "none" ELSE calls[Len(calls)]

\* C11: upload_table reads the errors of the load job only right after
\* running() has returned false; it raises SystemError exactly when the job
\* has errors at that point and returns otherwise; without a client no
\* load job is started, no call reaches a store and nothing is raised.
C11_BulkLoadProtocol ==
    /\ \A i \in 1..Len(calls) :
          calls[i] \in {"errors:some", "errors:none"} =>
              /\ i > 1
              /\ calls[i - 1] = "running:False"
              /\ i = Len(calls)
    /\ LastCall = "errors:some" <=>
          (utable # "none" /\ job = "errors" /\ pc = "raised" /\ exc = "SystemError")
    /\ LastCall = "errors:none" <=>
          (utable # "none" /\ job = "done" /\ pc = "exported")
    /\ (client /\ pc = "uploading") => LastCall \in {"load_table_from_json", "running:True"}
    /\ ~client =>
          /\ calls = <<>>
          /\ job = "none"
          /\ pc # "uploading"
          /\ utable # "none" =>
                \/ pc = "exported"
                \/ utable = "meta" /\ pc = "raised" /\ exc = "IndexError"

\* The load job had errors after a poll that found it running.
C11_Witness ==
    /\ LastCall = "errors:some"
    /\ pc = "raised"
    /\ \E i \in 1..Len(calls) : calls[i] = "running:True"

\* The number of calls of a kind made so far.
CallsIn(names) == Cardinality({i \in 1..Len(calls) : calls[i] \in names})

DeleteCalls == {"delete_table", "delete_table:NotFound"}

\* Building the records of the table update_table was called on raised.
RecordsRaised == utable = "meta" /\ Len(marray) < data_amount

NameLeads == {<<>>, <<"x">>, <<"\n">>}
NameNumbers == {<<>>, <<"7">>, <<"0", "7">>, <<"1", "2">>, <<"7", "a">>, <<"-", "7">>}
NameTails == {<<>>, <<"\n">>, <<"x">>, <<"\n", "\n">>, <<" ">>}

\* The folder names handed to postprocess.
FolderNameInputs ==
    {lead \o ResultsPrefix \o num \o UnpackSuffix \o tail :
        lead \in NameLeads, num \in NameNumbers, tail \in NameTails}
    \cup {BadFolderName}

\* A table as constructed, for a single run.
InitNames ==
    /\ Init
    /\ data_amount = 1
    /\ ~client
    /\ filename = "stat_mapper_stdout"

\* postprocess: one pass of the loop of CpuHistory.postprocess or
\* MemoryHistory.postprocess for a folder of any name.
PostprocessNamedFolder ==
    /\ pc = "postprocess"
    /\ Len(folders) < data_amount
    /\ \E folder \in FolderNameInputs :
          LET r == foldername_to_index(folder)
              st0 == Scrap(array, row_id, Len(folders), log)
          IN  IF r.exc # "none"
              THEN /\ folders' = Append(folders, folder)
                   /\ pc' = "raised"
                   /\ exc' = r.exc
                   /\ run' = [p |-> Len(folders), source |-> "none", exc |-> r.exc]
                   /\ UNCHANGED <<array, row_id, log>>
              ELSE IF kind = "cpu"
              THEN \E fs \in CpuBaseFiles(data_length) :
                      AfterPass(folder, fs,
                                SelectSource(fs.stat.exists, fs.rrd1.exists,
                                             fs.rrd1_old.exists),
                                Cpu_postprocess_folder(st0, fs, data_length, r.index, Binary))
              ELSE \E fs \in MemBaseFiles(data_length) :
                      AfterPass(folder, fs,
                                SelectSource(fs.stat.exists, fs.coll["resident"].exists,
                                             fs.coll_old["resident"].exists),
                                Mem_postprocess_folder(st0, fs, data_length, r.index))
    /\ UNCHANGED <<dvars, kind, data_amount, data_length, filename, client,
                   sarray, spc, scopied, json_data, calls, job, utable, marray, mpc>>

NextNames == PostprocessNamedFolder

SpecNames == InitNames /\ [][NextNames]_vars

\* The largest run number among the folder names.
MaxIndex == 12

\* The text ds is the number n in decimal digits, zeros before it or not.
IsNumeralOf(ds, n) ==
    \E z \in 0..(Len(ds) - 1) :
        /\ \A i \in 1..z : ds[i] = "0"
        /\ SubSeq(ds, z + 1, Len(ds)) = Numeral(n)

\* The name is results_<N>_unpack with nothing before or after it.
IsResultsFolder(name, n) ==
    \E ds \in NameNumbers :
        /\ ds # <<>>
        /\ \A i \in 1..Len(ds) : IsDigit(ds[i])
        /\ name = ResultsPrefix \o ds \o UnpackSuffix
        /\ IsNumeralOf(ds, n)

\* The last pass stopped at the name of its folder, before any source.
RaisedAtName ==
    /\ pc = "raised"
    /\ exc = "SystemError"
    /\ run.source = "none"
    /\ log = <<>>
    /\ row_id = 0

\* C13: foldername_to_index gives N for the names results_<N>_unpack, and
\* raises SystemError for every other name, before postprocess reads any
\* source of the folder.
C13_FolderNames ==
    run.p >= 0 =>
        LET name == folders[run.p + 1]
        IN  IF \E n \in 0..MaxIndex : IsResultsFolder(name, n)
            THEN /\ ~RaisedAtName
                 /\ IsResultsFolder(name, run.index)
            ELSE RaisedAtName

\* The names foldername_to_index takes for the name of a run: those of the
\* form results_<N>_unpack, and those followed by one line feed.
C13_FolderNamesOrLineFeed ==
    run.p >= 0 =>
        LET name == folders[run.p + 1]
            core == IF name # <<>> /\ name[Len(name)] = "\n"
                    THEN SubSeq(name, 1, Len(name) - 1) ELSE name
        IN  IF \E n \in 0..MaxIndex :
                  IsResultsFolder(name, n) \/ IsResultsFolder(core, n)
            THEN /\ ~RaisedAtName
                 /\ IsResultsFolder(name, run.index) \/ IsResultsFolder(core, run.index)
            ELSE RaisedAtName

\* C14: CpuHistory.postprocess, given validly named folders and a file key
\* other than stat_mapper_stdout and stat_mosquitto_stdout, raises
\* SystemError at the first folder, before it reads any source, and leaves
\* the array and row_id as they were.
C14_UnknownFileKey ==
    (/\ kind = "cpu"
     /\ filename \notin {"stat_mapper_stdout", "stat_mosquitto_stdout"}
     /\ folders # <<>>
     /\ \A p \in 1..Len(folders) : foldername_to_index(folders[p]).exc = "none")
    => /\ Len(folders) = 1
       /\ pc = "raised"
       /\ exc = "SystemError"
       /\ run.p = 0
       /\ run.source = "none"
       /\ log = <<>>
       /\ array = Zeros(size, Width(kind))
       /\ row_id = 0

\* postprocess was given results_1_unpack and the key stat_other_stdout.
C14_Witness ==
    /\ kind = "cpu"
    /\ filename = "stat_other_stdout"
    /\ folders = <<FolderName(1)>>
    /\ pc = "raised"

\* The last pass read the primary dump of a run of a memory table.
MemPrimaryRun == kind = "mem" /\ run.p >= 0 /\ run.source = "primary"

\* C15: when the primary memory dump of a run holds more than data_length
\* lines, MemoryHistory.scrap_data raises nothing, writes exactly
\* data_length rows, all in the block of the run, and advances row_id by
\* data_length.
C15_MemTruncation ==
    (MemPrimaryRun /\ run.fs.stat.len > data_length) =>
        /\ run.exc = "none"
        /\ row_id = run.start + data_length
        /\ Len(WritesOf(run.p)) = data_length
        /\ \A k \in 1..Len(WritesOf(run.p)) :
              /\ WritesOf(run.p)[k].idx >= run.start
              /\ WritesOf(run.p)[k].idx < run.start + data_length

\* The export files the last pass selected: those of the analytics layout
\* or those of the legacy layout.
SecondaryRun == run.p >= 0 /\ run.source \in {"secondary", "legacy"}

\* A counter file of the selected export cannot be opened: the stime file
\* of a CPU table, a file other than the resident one of a memory table.
UnopenableSecondary ==
    /\ SecondaryRun
    /\ IF kind = "cpu"
       THEN IF run.source = "secondary" THEN ~run.fs.rrd2.exists
            ELSE ~run.fs.rrd2_old.exists
       ELSE \E t \in TypeSet \ {"resident"} :
               IF run.source = "secondary" THEN ~run.fs.coll[t].exists
               ELSE ~run.fs.coll_old[t].exists

\* C16: when the export is selected for a run and one of its counter files
\* cannot be opened, extraction raises nothing and writes data_length rows
\* of zeros for the run.
C16_UnopenableSecondary ==
    UnopenableSecondary =>
        /\ run.exc = "none"
        /\ row_id = run.start + data_length
        /\ \A s \in 0..(data_length - 1) :
              array[run.start + s] =
                  <<run.start + s, run.index, s>> \o ZeroRow(Width(kind) - 3)

\* C17: when the two export files of a run of a CPU table hold a number of
\* lines other than data_length, CpuHistory.scrap_data_collectd raises
\* nothing and writes exactly data_length rows for the run.
C17_SecondarySampleCount ==
    (/\ kind = "cpu"
     /\ SecondaryRun
     /\ LET f1 == IF run.source = "secondary" THEN run.fs.rrd1 ELSE run.fs.rrd1_old
            f2 == IF run.source = "secondary" THEN run.fs.rrd2 ELSE run.fs.rrd2_old
        IN  /\ f1.exists
            /\ f2.exists
            /\ f1.len = f2.len
            /\ f1.len # data_length)
    => /\ run.exc = "none"
       /\ row_id = run.start + data_length
       /\ Len(WritesOf(run.p)) = data_length

\* C18: in every record MemoryHistory.update_table builds, the field text
\* is column 6 and the field data is column 7 of the row of the record.
C18_MemExportFields ==
    (kind = "mem" /\ Updated) =>
        /\ Len(json_data) = size
        /\ \A i \in 1..Len(json_data) :
              /\ json_data[i].text = array[i - 1][7]
              /\ json_data[i].data = array[i - 1][8]

\* C19: once the load job has finished (running() returns false),
\* upload_table returns or raises; while the job is running upload_table
\* stays in its loop, whatever the number of polls: it has not returned,
\* not raised and not read the errors of the job.
C19_UploadTermination ==
    /\ (pc = "uploading" /\ job \in {"done", "errors"}) ~> (pc \in {"exported", "raised"})
    /\ [](job = "running" =>
            /\ pc = "uploading"
            /\ LastCall \in {"load_table_from_json", "running:True"}
            /\ CallsIn({"running:False", "errors:some", "errors:none"}) = 0)

\* upload_table has returned after polls that found the job running.
C19_Witness ==
    /\ pc = "exported"
    /\ LastCall = "errors:none"
    /\ Polls = MaxPolls

\* ------------------------------------------- the download of the artifacts

\* download_artifact for the runner 'run analytics': the file is
\* run_analytics_results_<run_number>.zip.  An existing file is skipped
\* (False); otherwise the artifact is requested and the file opened for
\* writing, and a first chunk that is an error message of the server
\* raises SystemError.
download_artifact(lk, run_number, expired) ==
    IF run_number \in lk
    THEN [ret |-> "False", lake |-> lk, exc |-> "none", requested |-> <<>>]
    ELSE IF expired
    THEN [ret |-> "none", lake |-> lk \cup {run_number}, exc |-> "SystemError",
          requested |-> <<[run_number |-> run_number, existed |-> run_number \in lk]>>]
    ELSE [ret |-> "True", lake |-> lk \cup {run_number}, exc |-> "none",
          requested |-> <<[run_number |-> run_number, existed |-> run_number \in lk]>>]

\* get_artifacts_for_runid: the first artifact of the run is downloaded;
\* a run without artifacts gives None.
get_artifacts_for_runid(lk, r) ==
    IF r.artifacts > 0
    THEN download_artifact(lk, r.run_number, r.expired)
    ELSE [ret |-> "None", lake |-> lk, exc |-> "none", requested |-> <<>>]

\* The number of skipped runs main goes beyond before it returns.
SkipLimit == 20

\* main returning once the counter has reached the limit.
SkippedEnoughAtLimit(counter) == counter >= SkipLimit

\* main: if skip_counter > 20: return.
SkippedEnough(counter) == counter > SkipLimit

\* main: one pass of its loop over system_test_runs.
MainRun ==
    /\ dpc = "running"
    /\ next_run <= Len(system_test_runs)
    /\ LET r == get_artifacts_for_runid(lake, system_test_runs[next_run])
           counter == IF r.ret = "False" THEN skip_counter + 1 ELSE skip_counter
       IN  /\ lake' = r.lake
           /\ requested' = requested \o r.requested
           /\ IF r.exc # "none"
              THEN /\ dpc' = "raised"
                   /\ UNCHANGED <<skip_counter, next_run, rets>>
              ELSE /\ rets' = Append(rets, r.ret)
                   /\ skip_counter' = counter
                   /\ next_run' = next_run + 1
                   /\ dpc' = IF SkippedEnough(counter) THEN "returned" ELSE "running"
    /\ UNCHANGED <<system_test_runs, kind, data_amount, data_length, filename, client, array,
                   row_id, folders, pc, exc, run, log, sarray, spc, scopied, json_data,
                   calls, job, utable, marray, mpc>>

\* main: the list of runs is exhausted.
MainReturn ==
    /\ dpc = "running"
    /\ next_run > Len(system_test_runs)
    /\ dpc' = "returned"
    /\ UNCHANGED <<system_test_runs, lake, skip_counter, next_run, rets, requested,
                   kind, data_amount, data_length, filename, client, array,
                   row_id, folders, pc, exc, run, log, sarray, spc, scopied, json_data,
                   calls, job, utable, marray, mpc>>

\* The most system-test runs in the list.
MaxRuns == 24

\* The positions in the list of the runs whose artifact file does not
\* exist yet: a part of these.
OtherPositions == {1, 11, 21}

\* What such a run is: one whose artifact downloads, one without artifact,
\* one whose artifact has expired.
OtherKinds == {"download", "none", "expired"}

\* The run numbers of a list of n runs, newest first; with twice, the
\* second run is listed with the number of the first.
RunNumber(n, twice, p) == IF twice /\ p = 2 THEN n ELSE n - p + 1

\* The list of runs.
SystemTestRuns(n, others, what, twice) ==
    [p \in 1..n |->
        [run_number |-> RunNumber(n, twice, p),
         artifacts |-> IF p \in others /\ what = "none" THEN 0 ELSE 1,
         expired |-> p \in others /\ what = "expired"]]

\* main after get_all_system_test_runs, beside a table as constructed.
InitDownload ==
    \E n \in 0..MaxRuns, others \in SUBSET OtherPositions, what \in OtherKinds,
       twice \in BOOLEAN :
        /\ system_test_runs = SystemTestRuns(n, others, what, twice)
        /\ lake = {RunNumber(n, twice, p) : p \in (1..n) \ others}
        /\ skip_counter = 0
        /\ next_run = 1
        /\ dpc = "running"
        /\ rets = <<>>
        /\ requested = <<>>
        /\ kind = "cpu"
        /\ data_amount = 1
        /\ data_length = 1
        /\ filename = "stat_mapper_stdout"
        /\ client = FALSE
        /\ array = Zeros(1, Width("cpu"))
        /\ row_id = 0
        /\ folders = <<>>
        /\ pc = "postprocess"
        /\ exc = "none"
        /\ run = NoRun
        /\ log = <<>>
        /\ sarray = Zeros(1, NumFields)
        /\ spc = "fresh"
        /\ scopied = {}
        /\ json_data = <<>>
        /\ calls = <<>>
        /\ job = "none"
        /\ utable = "none"
        /\ marray = <<>>
        /\ mpc = "fresh"

NextDownload ==
    \/ MainRun
    \/ MainReturn

SpecDownload == InitDownload /\ [][NextDownload]_vars

\* The number of runs so far whose artifact file already existed.
Skips == Cardinality({i \in 1..Len(rets) : rets[i] = "False"})

\* C20: main goes through the runs in the order of the list and returns at
\* the run that makes the number of runs whose artifact file already
\* existed exceed 20, the 21st of them; a run that downloaded (True) or had
\* no artifact (None) does not count; no artifact is requested whose file
\* exists, and no existing file is written.
C20_DownloadLoop ==
    /\ Len(rets) = next_run - 1
    /\ skip_counter = Skips
    /\ \A i \in 1..Len(rets) :
          rets[i] = IF system_test_runs[i].artifacts = 0 THEN "None"
                    ELSE IF \E k \in 1..Len(requested) :
                                requested[k].run_number = system_test_runs[i].run_number
                            /\ \A j \in 1..(i - 1) :
                                 system_test_runs[j].run_number
                                     # system_test_runs[i].run_number
                    THEN "True" ELSE "False"
    /\ dpc = "running" => skip_counter <= SkipLimit
    /\ dpc = "returned" =>
          \/ /\ skip_counter = SkipLimit + 1
             /\ rets[Len(rets)] = "False"
          \/ /\ skip_counter <= SkipLimit
             /\ Len(rets) = Len(system_test_runs)
    /\ \A k \in 1..Len(requested) :
          /\ ~requested[k].existed
          /\ \A j \in 1..(k - 1) : requested[j].run_number # requested[k].run_number

\* main has returned at the 21st run whose file existed, after a run that
\* downloaded, before the end of the list.
C20_Witness ==
    /\ dpc = "returned"
    /\ skip_counter = SkipLimit + 1
    /\ \E i \in 1..Len(rets) : rets[i] = "True"
    /\ Len(rets) < Len(system_test_runs)

====
